---- MODULE Spec2Model ----
(***************************************************************************)
(* Attendance engine of event-organizer: the check-in / check-out          *)
(* handlers of OccurrenceController, the participant and event operations  *)
(* that touch the attendance table through foreign keys, and the clock.    *)
(*                                                                         *)
(* Instants are minutes on an absolute (UTC) time line.  Every handler is  *)
(* a coroutine; it is split at the awaits between its reads of the store   *)
(* and its write, so that two requests can interleave between the check    *)
(* and the write.  Each request runs in its own database session.          *)
(***************************************************************************)
EXTENDS Integers, FiniteSets, Sequences, Bags, TLC

\* ---------------------------------------------------------------- bounds
MaxTick == 4            \* the clock takes the instants 0, 80, ..., 80 * MaxTick
MaxEventId == 1         \* events ever created (autoincrement ids)
MaxOccurrenceId == 2    \* occurrences ever created (autoincrement ids)
MaxParticipantId == 2   \* participants ever created (autoincrement ids)
MaxCode == 1            \* distinct security codes token_hex can draw
MaxAttendance == 2      \* rows of the attendance table at the same time
MaxDate == 1            \* recurrence dates are the days 0 .. MaxDate

\* ------------------------------------------------------ program constants
None == -1              \* NULL / None of an Optional column or local
TwoHours == 120         \* timedelta(hours=2), in minutes
FortyMinutes == 40      \* timedelta(minutes=40), in minutes
AdultAge == 18          \* age_on(today) < 18 is a minor
DaysPerWeek == 7        \* date.weekday() is 0 (Monday) .. 6 (Sunday)
MinutesPerHour == 60
MinutesPerDay == 1440

\* ------------------------------------------------------------ input sets
Instants == {80 * k : k \in 0..MaxTick}
NoDate == [year |-> 0, month |-> 0, day |-> 0]
\* a participant who turns 18 on 2026-06-15, and one who turned 18 the day
\* before
BirthDates == {[year |-> 2008, month |-> 6, day |-> 15],
               [year |-> 2008, month |-> 6, day |-> 14]}
\* birth dates and reference dates for age_on: the days around the 18th
\* anniversaries, a birth on the last day of a year with reference dates in
\* an earlier and in a later month, a birth on 29 February, the birth date
\* itself, and the spec's participant born 2010-01-01 on 2024-06-01
AgeBirthDates ==
    BirthDates \cup {[year |-> 2008, month |-> 12, day |-> 31],
                     [year |-> 2008, month |-> 2, day |-> 29],
                     [year |-> 2010, month |-> 1, day |-> 1]}
AgeDates ==
    {[year |-> 2026, month |-> 6, day |-> 13],
     [year |-> 2026, month |-> 6, day |-> 14],
     [year |-> 2026, month |-> 6, day |-> 15],
     [year |-> 2026, month |-> 6, day |-> 16],
     [year |-> 2026, month |-> 12, day |-> 30],
     [year |-> 2027, month |-> 1, day |-> 1],
     [year |-> 2027, month |-> 2, day |-> 28],
     [year |-> 2027, month |-> 3, day |-> 1],
     [year |-> 2010, month |-> 1, day |-> 1],
     [year |-> 2024, month |-> 6, day |-> 1]}
\* (single_start, single_end) of a one-off event
EventWindows == {<<160, 240>>}
\* one-off events for the status computation: the two windows overlap and end
\* on instants of the clock (160 .. 240), the check-in window opens and
\* closes on instants of the clock (200 .. 280), the event is shorter than
\* 40 minutes (170 .. 190)
StatusWindows == {<<160, 240>>, <<200, 280>>, <<170, 190>>}
\* the texts of time windows: "10:00-12:00", the same window written twice in
\* a rule, "12:00-10:00" (ends before it starts), "10:00" (no "-") and
\* "10:xx-12:00" (a field that is no number)
Window1012 == << <<"10", "00">>, <<"12", "00">> >>
Window1210 == << <<"12", "00">>, <<"10", "00">> >>
WindowNoDash == << <<"10", "00">> >>
WindowNoNumber == << <<"10", "xx">>, <<"12", "00">> >>
\* recurrence rules as the event form builds them: the weekday texts and the
\* time-window texts
RecurrenceRules ==
    {[weekdays |-> <<>>, time_windows |-> <<>>],
     [weekdays |-> <<>>, time_windows |-> <<Window1012>>],
     [weekdays |-> <<"0">>, time_windows |-> <<>>],
     [weekdays |-> <<"x">>, time_windows |-> <<Window1012>>],
     [weekdays |-> <<"0">>, time_windows |-> <<Window1012>>],
     [weekdays |-> <<"0", "0">>, time_windows |-> <<Window1012, Window1012>>],
     [weekdays |-> <<"0">>, time_windows |-> <<Window1210>>],
     [weekdays |-> <<"0">>, time_windows |-> <<WindowNoDash>>],
     [weekdays |-> <<"0">>, time_windows |-> <<WindowNoNumber, Window1012>>]}
\* (recurrence_start_date, recurrence_end_date): a range, one day that
\* matches, one day that does not, an empty range, and a missing date
RecurrenceDates ==
    {<<0, MaxDate>>, <<0, 0>>, <<MaxDate, MaxDate>>, <<MaxDate, 0>>,
     <<None, MaxDate>>, <<0, None>>}
\* (single_start, single_end) as the event form can carry them
SingleWindows ==
    {<<160, 240>>, <<240, 160>>, <<160, 160>>, <<160, None>>, <<None, 240>>,
     <<None, None>>}
\* the weekly rule on each choice of dates, each rule on the full range
RecurringForms ==
    {<<d, [weekdays |-> <<"0">>, time_windows |-> <<Window1012>>]>> : d \in RecurrenceDates}
        \cup {<<<<0, MaxDate>>, rule>> : rule \in RecurrenceRules}
EventIds == 1..MaxEventId
OccurrenceIds == 1..MaxOccurrenceId
ParticipantIds == 1..MaxParticipantId
\* guardian_id of a participant form: none, or a participant's id
Guardians == {None} \cup ParticipantIds
Codes == 1..MaxCode
\* what a checkout form can carry: 0 is the empty string, MaxCode + 1 a code
\* that is never issued
SuppliedCodes == 0..(MaxCode + 1)
\* two request slots: two handlers can be between their awaits at once
Reqs == {1, 2}

VARIABLES now, events, occurrences, participants, attendance,
          next_event_id, next_occurrence_id, next_participant_id, req, response

vars == <<now, events, occurrences, participants, attendance,
          next_event_id, next_occurrence_id, next_participant_id, req, response>>

\* -------------------------------------------------------- pure functions

\* Python tuple comparison (month, day) < (month, day)
MonthDayLess(a, b) ==
    \/ a.month < b.month
    \/ a.month = b.month /\ a.day < b.day

\* calendar order of two dates
DateLess(a, b) ==
    \/ a.year < b.year
    \/ a.year = b.year /\ MonthDayLess(a, b)

age_on_NoBirthdayAdjust(birth_date, on_date) ==
    on_date.year - birth_date.year

age_on(birth_date, on_date) ==
    (on_date.year - birth_date.year)
        - (IF MonthDayLess(on_date, birth_date) THEN 1 ELSE 0)

sha256_Plain == [c \in SuppliedCodes |-> c]

\* hashlib.sha256(code.encode()).hexdigest(): a one-way digest, no collisions
\* among the codes of the model; never equal to the code nor to None
sha256 == [c \in SuppliedCodes |-> 1000 + 7 * c]

\* date.today() at instant t: the server's local calendar date.  Instant 0 is
\* 20:40 local time on 2026-06-14, so that midnight falls at instant 200,
\* inside the window of the events of the model
date_today(t) == [year |-> 2026, month |-> 6, day |-> 14 + ((t + 1240) \div 1440)]

is_checkin_available_ExclusiveClose(occurrence, t) ==
    /\ occurrence.start_at - TwoHours <= t
    /\ t < occurrence.end_at - FortyMinutes

is_checkin_available_NeverCloses(occurrence, t) ==
    occurrence.start_at - TwoHours <= t

is_checkin_available(occurrence, t) ==
    /\ occurrence.start_at - TwoHours <= t
    /\ t <= occurrence.end_at - FortyMinutes

is_checkout_available_EarlyOpen(occurrence, t) ==
    /\ occurrence.start_at - TwoHours <= t
    /\ t <= occurrence.end_at

is_checkout_available(occurrence, t) ==
    /\ occurrence.start_at <= t
    /\ t <= occurrence.end_at

NoStatus == [checkin_available |-> FALSE, checkout_available |-> FALSE,
             checkin_opens_at |-> None, checkin_closes_at |-> None,
             checkout_opens_at |-> None, checkout_closes_at |-> None,
             status |-> "none"]

get_occurrence_status_CheckoutFirst(occurrence, t, t_in, t_out) ==
    LET checkin_available == is_checkin_available(occurrence, t_in)
        checkout_available == is_checkout_available(occurrence, t_out)
    IN [checkin_available |-> checkin_available,
        checkout_available |-> checkout_available,
        checkin_opens_at |-> occurrence.start_at - TwoHours,
        checkin_closes_at |-> occurrence.end_at - FortyMinutes,
        checkout_opens_at |-> occurrence.start_at,
        checkout_closes_at |-> occurrence.end_at,
        status |-> IF t < occurrence.start_at - TwoHours THEN "event_not_started"
                   ELSE IF t > occurrence.end_at THEN "event_ended"
                   ELSE IF checkout_available THEN "checkout_available"
                   ELSE IF checkin_available THEN "checkin_available"
                   ELSE "checkin_closed"]

\* OccurrenceController._get_occurrence_status: the function reads the clock
\* (t, line 116) and so does each of the two availability functions it calls
\* (t_in at line 120, t_out at line 121)
get_occurrence_status(occurrence, t, t_in, t_out) ==
    LET checkin_opens == occurrence.start_at - TwoHours
        checkin_closes == occurrence.end_at - FortyMinutes
        checkout_opens == occurrence.start_at
        checkout_closes == occurrence.end_at
        checkin_available == is_checkin_available(occurrence, t_in)
        checkout_available == is_checkout_available(occurrence, t_out)
    IN [checkin_available |-> checkin_available,
        checkout_available |-> checkout_available,
        checkin_opens_at |-> checkin_opens,
        checkin_closes_at |-> checkin_closes,
        checkout_opens_at |-> checkout_opens,
        checkout_closes_at |-> checkout_closes,
        status |-> IF t < checkin_opens THEN "event_not_started"
                   ELSE IF t > checkout_closes THEN "event_ended"
                   ELSE IF checkin_available THEN "checkin_available"
                   ELSE IF checkout_available THEN "checkout_available"
                   ELSE "checkin_closed"]

\* ------------------------------------------------- recurrence expansion

\* config.settings: the Settings dataclass has these two fields and no other
settings == [database_url |-> "DATABASE_URL", secret_key |-> "SECRET_KEY"]

\* getattr: an attribute a dataclass instance does not have raises
\* AttributeError
HasAttr(obj, name) == name \in DOMAIN obj

\* int(text) of the texts the forms of the model carry; any other text raises
\* ValueError
Numerals ==
    ("0" :> 0) @@ ("1" :> 1) @@ ("2" :> 2) @@ ("3" :> 3) @@ ("4" :> 4) @@
    ("5" :> 5) @@ ("6" :> 6) @@ ("00" :> 0) @@ ("10" :> 10) @@ ("12" :> 12)

IsInt(text) == text \in DOMAIN Numerals

int(text) == Numerals[text]

\* date.weekday(): day 0 of the model is a Monday
weekday(d) == d % DaysPerWeek

\* ZoneInfo(zone).utcoffset, in minutes
utcoffset == [zone \in {"UTC", "America/Sao_Paulo"} |->
                 IF zone = "UTC" THEN 0 ELSE 0 - 180]

\* datetime.combine(d, min.time()).replace(hour, minute, tzinfo=zone)
\*     .astimezone(UTC), as minutes on the UTC time line
local_to_utc(d, hour, minute, zone) ==
    d * MinutesPerDay + hour * MinutesPerHour + minute - utcoffset[zone]

\* A time window is the text "HH:MM-HH:MM", kept as the list of its parts
\* between "-", each part the list of its fields between ":".
\* Lines 93-95: two parts, two fields each, every field an int, or ValueError
window_parses(time_window) ==
    /\ Len(time_window) = 2
    /\ \A i \in 1..Len(time_window) :
          /\ Len(time_window[i]) = 2
          /\ \A j \in 1..Len(time_window[i]) : IsInt(time_window[i][j])

\* datetime.replace(hour, minute) raises ValueError outside 0..23 / 0..59
clock_time_valid(hour, minute) ==
    /\ 0 <= hour /\ hour < 24
    /\ 0 <= minute /\ minute < MinutesPerHour

NoInterval == [kind |-> "skip", start_at |-> None, end_at |-> None]

\* lines 92-118, one time window on one date: "skip" (ValueError or
\* IndexError, caught), "AttributeError" (settings.timezone, not caught), or
\* the occurrence's interval
time_window_outcome(d, time_window) ==
    IF ~window_parses(time_window) THEN NoInterval
    ELSE IF ~HasAttr(settings, "timezone")
         THEN [NoInterval EXCEPT !.kind = "AttributeError"]
    ELSE LET start_hour == int(time_window[1][1])
             start_min == int(time_window[1][2])
             end_hour == int(time_window[2][1])
             end_min == int(time_window[2][2])
         IN IF ~clock_time_valid(start_hour, start_min)
               \/ ~clock_time_valid(end_hour, end_min)
            THEN NoInterval
            ELSE [kind |-> "occurrence",
                  start_at |-> local_to_utc(d, start_hour, start_min, settings.timezone),
                  end_at |-> local_to_utc(d, end_hour, end_min, settings.timezone)]

\* what an expansion gives back: the exception it raised ("none" when it
\* returned) and the intervals it had added by then, in order
Expansion(raised, intervals) == [raised |-> raised, intervals |-> intervals]

\* lines 91-118: the time windows i, i + 1, ... of the rule on date d
RECURSIVE windows_from(_, _, _)
windows_from(d, time_windows, i) ==
    IF i > Len(time_windows) THEN Expansion("none", <<>>)
    ELSE LET this == time_window_outcome(d, time_windows[i])
         IN IF this.kind = "AttributeError" THEN Expansion("AttributeError", <<>>)
            ELSE LET rest == windows_from(d, time_windows, i + 1)
                     head == IF this.kind = "occurrence"
                             THEN <<[start_at |-> this.start_at, end_at |-> this.end_at]>>
                             ELSE <<>>
                 IN Expansion(rest.raised, head \o rest.intervals)

\* lines 87-121: the dates current_date, current_date + 1, ... up to end_date
RECURSIVE dates_from(_, _, _, _)
dates_from(current_date, end_date, weekdays, time_windows) ==
    IF ~(current_date <= end_date) THEN Expansion("none", <<>>)
    ELSE LET today == IF weekday(current_date) \in weekdays
                      THEN windows_from(current_date, time_windows, 1)
                      ELSE Expansion("none", <<>>)
         IN IF today.raised # "none" THEN today
            ELSE LET rest == dates_from(current_date + 1, end_date, weekdays, time_windows)
                 IN Expansion(rest.raised, today.intervals \o rest.intervals)

\* "not event.recurrence_rule": None and {} are one value of the model
NoRule == [weekdays |-> <<>>, time_windows |-> <<>>]

incomplete_recurrence_RuleOnly(event) ==
    \/ event.recurrence_rule = NoRule
    \/ event.recurrence_rule.weekdays = <<>>
    \/ event.recurrence_rule.time_windows = <<>>

\* lines 67 and 74: the data without which the expansion returns at once
incomplete_recurrence(event) ==
    \/ event.recurrence_rule = NoRule
    \/ event.recurrence_start_date = None
    \/ event.recurrence_end_date = None
    \/ event.recurrence_rule.weekdays = <<>>
    \/ event.recurrence_rule.time_windows = <<>>

\* EventService._generate_recurring_occurrences
generate_recurring_occurrences(event) ==
    IF incomplete_recurrence(event) THEN Expansion("none", <<>>)
    ELSE LET rule == event.recurrence_rule
         IN IF \E i \in 1..Len(rule.weekdays) : ~IsInt(rule.weekdays[i])
            THEN Expansion("none", <<>>)
            ELSE IF event.recurrence_start_date = None \/ event.recurrence_end_date = None
            THEN Expansion("TypeError", <<>>)
            ELSE dates_from(event.recurrence_start_date, event.recurrence_end_date,
                            {int(rule.weekdays[i]) : i \in 1..Len(rule.weekdays)},
                            rule.time_windows)

single_occurrence_StartOnly(event) ==
    IF event.single_start # None
    THEN Expansion("none", <<[start_at |-> event.single_start, end_at |-> event.single_end]>>)
    ELSE Expansion("none", <<>>)

\* lines 41-49: the occurrence of a one-off event
single_occurrence(event) ==
    IF event.single_start # None /\ event.single_end # None
    THEN Expansion("none", <<[start_at |-> event.single_start, end_at |-> event.single_end]>>)
    ELSE Expansion("none", <<>>)

\* lines 37-49: the occurrences generate_occurrences adds to its session
expand(event) ==
    IF event.is_recurring THEN generate_recurring_occurrences(event)
    ELSE single_occurrence(event)

\* ------------------------------------------------------------ the store

OccurrenceById(o) == {x \in occurrences : x.id = o}
ParticipantById(p) == {x \in participants : x.id = p}
EventById(e) == {x \in events : x.id = e}

\* The attendance table is a bag of rows: nothing but its key constraint keeps
\* a table from holding two rows of the same pair, or the same row twice.
Rows(table) == BagToSet(table)

\* AttendanceService.get_by_occurrence_and_participant: the rows of the pair
get_by_occurrence_and_participant(o, p) ==
    {a \in Rows(attendance) : a.occurrence_id = o /\ a.participant_id = p}

CascadeOccurrences_KeepRows(table, gone) == table

\* ON DELETE CASCADE of attendance.occurrence_id
CascadeOccurrences(table, gone) ==
    [a \in {x \in DOMAIN table : x.occurrence_id \notin gone} |-> table[a]]

CascadeParticipant_AllRows(table, p) == EmptyBag

\* ON DELETE CASCADE of attendance.participant_id
CascadeParticipant(table, p) ==
    [a \in {x \in DOMAIN table : x.participant_id # p} |-> table[a]]

\* no EventModel
NoEvent == [id |-> None, is_recurring |-> FALSE,
            single_start |-> None, single_end |-> None,
            recurrence_start_date |-> None, recurrence_end_date |-> None,
            recurrence_rule |-> NoRule]

\* a request slot: the handler's position and its locals; for a call of
\* generate_occurrences the event it was given and the occurrences its
\* session has deleted
IdleReq == [pc |-> "idle", occurrence_id |-> None, participant_id |-> None,
            checkout_by_participant_id |-> None, code |-> None,
            birth_date |-> NoDate, code_hash |-> None, at |-> None,
            event |-> NoEvent, deleted |-> {}]

\* the last answered request and its template context: which handler, at
\* which step it returned, for which pair, the outcome, the code it shows,
\* and the code the form supplied once the handler has come to lines 542-565;
\* for a call of generate_occurrences the event it was given and the list it
\* returned; for the status of an occurrence the status and the instants the
\* clock gave to its three reads; for a call of age_on the reference date and
\* the age
NoResponse == [kind |-> "none", step |-> "none", occurrence_id |-> None,
               participant_id |-> None, outcome |-> "none", code |-> None,
               supplied |-> None, event |-> NoEvent, returned |-> <<>>,
               status |-> NoStatus, clock |-> <<>>,
               on_date |-> NoDate, age |-> None]

Respond(kind, step, o, p, outcome, code) ==
    [kind |-> kind, step |-> step, occurrence_id |-> o, participant_id |-> p,
     outcome |-> outcome, code |-> code, supplied |-> None,
     event |-> NoEvent, returned |-> <<>>, status |-> NoStatus, clock |-> <<>>,
     on_date |-> NoDate, age |-> None]

Init ==
    /\ now = 0
    /\ events = {}
    /\ occurrences = {}
    /\ participants = {}
    /\ attendance = EmptyBag
    /\ next_event_id = 1
    /\ next_occurrence_id = 1
    /\ next_participant_id = 1
    /\ req = [r \in Reqs |-> IdleReq]
    /\ response = NoResponse

\* ------------------------------------------------------------- the clock

Tick ==
    /\ \E t \in Instants : t > now /\ now' = t
    /\ UNCHANGED <<events, occurrences, participants, attendance,
                   next_event_id, next_occurrence_id, next_participant_id, req>>
    /\ response' = NoResponse

\* ----------------------------------------------- participants and events

\* ParticipantController.create_participant: guardian_id is a foreign key to
\* participants.id, nothing else about the guardian is checked
create_participant(birth_date, guardian_id) ==
    /\ next_participant_id <= MaxParticipantId
    /\ guardian_id = None \/ ParticipantById(guardian_id) # {}
    /\ participants' = participants \cup
           {[id |-> next_participant_id, birth_date |-> birth_date,
             guardian_id |-> guardian_id]}
    /\ next_participant_id' = next_participant_id + 1
    /\ UNCHANGED <<now, events, occurrences, attendance,
                   next_event_id, next_occurrence_id, req>>
    /\ response' = NoResponse

\* attendance.checkout_by_participant_id has no ON DELETE rule: a row of
\* another participant that names p as the one who checked out blocks the
\* delete (the handler catches the error and changes nothing)
RestrictsParticipantDelete(rows, p) ==
    \E a \in rows : a.checkout_by_participant_id = p /\ a.participant_id # p

\* the backref "dependents" of ParticipantModel.guardian: the ORM sets the
\* guardian_id of the dependents of a deleted participant to NULL
WithoutGuardian(rows, p) ==
    {IF x.guardian_id = p THEN [x EXCEPT !.guardian_id = None] ELSE x : x \in rows}

\* ParticipantController.update_participant: participants_service.update;
\* birth_date and guardian_id are overwritten by the form's
update_participant(p, birth_date, guardian_id) ==
    /\ ParticipantById(p) # {}
    /\ guardian_id = None \/ ParticipantById(guardian_id) # {}
    /\ participants' = (participants \ ParticipantById(p)) \cup
           {[id |-> p, birth_date |-> birth_date, guardian_id |-> guardian_id]}
    /\ UNCHANGED <<now, events, occurrences, attendance,
                   next_event_id, next_occurrence_id, next_participant_id, req>>
    /\ response' = NoResponse

\* ParticipantModel.age_on, called on a participant with a reference date
participant_age_on(p, on_date) ==
    /\ \E participant \in ParticipantById(p) :
          response' = [Respond("age_on", "age_on", None, p, "Success", None)
                          EXCEPT !.on_date = on_date,
                                 !.age = age_on(participant.birth_date, on_date)]
    /\ UNCHANGED <<now, events, occurrences, participants, attendance,
                   next_event_id, next_occurrence_id, next_participant_id, req>>

delete_participant(p) ==
    /\ ParticipantById(p) # {}
    /\ ~RestrictsParticipantDelete(Rows(attendance), p)
    /\ participants' = WithoutGuardian(participants \ ParticipantById(p), p)
    /\ attendance' = CascadeParticipant(attendance, p)
    /\ UNCHANGED <<now, events, occurrences,
                   next_event_id, next_occurrence_id, next_participant_id, req>>
    /\ response' = NoResponse

\* EventCreate of a one-off event
SingleEvent(w) ==
    [is_recurring |-> FALSE, single_start |-> w[1], single_end |-> w[2],
     recurrence_start_date |-> None, recurrence_end_date |-> None,
     recurrence_rule |-> NoRule]

\* EventCreate of a recurring event
RecurringEvent(dates, rule) ==
    [is_recurring |-> TRUE, single_start |-> None, single_end |-> None,
     recurrence_start_date |-> dates[1], recurrence_end_date |-> dates[2],
     recurrence_rule |-> rule]

\* the forms of the events that are edited: a one-off event, the same event
\* without its instants, and a weekly event
ScheduleForms ==
    {SingleEvent(<<160, 240>>), SingleEvent(<<None, None>>),
     RecurringEvent(<<0, MaxDate>>, [weekdays |-> <<"0">>, time_windows |-> <<Window1012>>])}

\* the forms of the events the expansion is checked on
EventForms ==
    {SingleEvent(w) : w \in SingleWindows}
        \cup {RecurringEvent(f[1], f[2]) : f \in RecurringForms}

\* EventController.create_event: events_service.create(event_data); no
\* occurrence is created here
create_event(data) ==
    /\ next_event_id <= MaxEventId
    /\ events' = events \cup
           {[id |-> next_event_id, is_recurring |-> data.is_recurring,
             single_start |-> data.single_start, single_end |-> data.single_end,
             recurrence_start_date |-> data.recurrence_start_date,
             recurrence_end_date |-> data.recurrence_end_date,
             recurrence_rule |-> data.recurrence_rule]}
    /\ next_event_id' = next_event_id + 1
    /\ UNCHANGED <<now, occurrences, participants, attendance,
                   next_occurrence_id, next_participant_id, req>>
    /\ response' = NoResponse

\* EventController.update_event: events_service.update(event_data, item_id);
\* the schedule fields are overwritten and no occurrence is generated.
\* EventUpdate carries occurrences = [] (its default): a repository that
\* assigns it to the event's relationship removes the event's occurrences as
\* orphans (replace), one that copies the columns only leaves them
update_event(e, data, replace) ==
    /\ EventById(e) # {}
    /\ events' = (events \ EventById(e)) \cup
           {[id |-> e, is_recurring |-> data.is_recurring,
             single_start |-> data.single_start, single_end |-> data.single_end,
             recurrence_start_date |-> data.recurrence_start_date,
             recurrence_end_date |-> data.recurrence_end_date,
             recurrence_rule |-> data.recurrence_rule]}
    /\ IF replace
       THEN LET gone == {x.id : x \in {y \in occurrences : y.event_id = e}}
            IN /\ occurrences' = {x \in occurrences : x.event_id # e}
               /\ attendance' = CascadeOccurrences(attendance, gone)
       ELSE UNCHANGED <<occurrences, attendance>>
    /\ UNCHANGED <<now, participants,
                   next_event_id, next_occurrence_id, next_participant_id, req>>
    /\ response' = NoResponse

\* EventController.delete_event: the ORM cascade "all, delete-orphan" removes
\* the event's occurrences and their attendances
delete_event(e) ==
    /\ EventById(e) # {}
    /\ LET gone == {x.id : x \in {y \in occurrences : y.event_id = e}}
       IN /\ events' = events \ EventById(e)
          /\ occurrences' = {x \in occurrences : x.event_id # e}
          /\ attendance' = CascadeOccurrences(attendance, gone)
    /\ UNCHANGED <<now, participants,
                   next_event_id, next_occurrence_id, next_participant_id, req>>
    /\ response' = NoResponse

\* ---------------------------------------------------------------- checkin

\* a new request takes the first idle slot
Free(r) == req[r].pc = "idle" /\ \A q \in Reqs : q < r => req[q].pc # "idle"

\* the handler returns a template: the slot is released
Finish(r, answer) ==
    /\ req' = [req EXCEPT ![r] = IdleReq]
    /\ response' = answer

\* the handler awaits its next store call
Continue(r, locals) ==
    /\ req' = [req EXCEPT ![r] = locals]
    /\ response' = NoResponse

\* the table of the model holds MaxAttendance rows: a check-in that could add
\* one more is not issued
HasRoom(o, p) ==
    \/ BagCardinality(attendance) < MaxAttendance
    \/ get_by_occurrence_and_participant(o, p) # {}

\* lines 340-357: load the occurrence, test the window, load the participant
checkin_window(r, o, p) ==
    /\ Free(r)
    /\ HasRoom(o, p)
    /\ IF OccurrenceById(o) = {} \/ ParticipantById(p) = {}
       THEN Finish(r, Respond("checkin", "window", o, p, "Error", None))
       ELSE \E occurrence \in OccurrenceById(o), participant \in ParticipantById(p) :
              IF ~is_checkin_available(occurrence, now)
              THEN Finish(r, Respond("checkin", "window", o, p, "WindowClosed", None))
              ELSE Continue(r, [IdleReq EXCEPT !.pc = "ci_existing",
                                               !.occurrence_id = o,
                                               !.participant_id = p,
                                               !.birth_date = participant.birth_date])
    /\ UNCHANGED <<now, events, occurrences, participants, attendance,
                   next_event_id, next_occurrence_id, next_participant_id>>

existing_attendance_Blind(rows, o, p) == {}

\* line 360: the row the handler finds for the pair
existing_attendance(rows, o, p) ==
    {a \in rows : a.occurrence_id = o /\ a.participant_id = p}

is_minor_Inclusive(birth_date, on_date) == age_on(birth_date, on_date) <= AdultAge

\* line 378 / line 546: participant.age_on(today) < 18
is_minor(birth_date, on_date) == age_on(birth_date, on_date) < AdultAge

\* lines 360-388: reject a pair that has a row, else draw the code of a minor
\* and build the row
checkin_existing(r) ==
    /\ req[r].pc = "ci_existing"
    /\ LET o == req[r].occurrence_id
           p == req[r].participant_id
       IN IF existing_attendance(Rows(attendance), o, p) # {}
          THEN Finish(r, Respond("checkin", "existing", o, p, "AlreadyCheckedIn", None))
          ELSE IF is_minor(req[r].birth_date, date_today(now))
               THEN \E code \in Codes :
                      Continue(r, [req[r] EXCEPT !.pc = "ci_create",
                                                 !.birth_date = NoDate,
                                                 !.code = code,
                                                 !.code_hash = sha256[code],
                                                 !.at = now])
               ELSE Continue(r, [req[r] EXCEPT !.pc = "ci_create",
                                               !.birth_date = NoDate,
                                               !.code = None,
                                               !.code_hash = None,
                                               !.at = now])
    /\ UNCHANGED <<now, events, occurrences, participants, attendance,
                   next_event_id, next_occurrence_id, next_participant_id>>

InsertViolatesKey_Unchecked(rows, o, p) == FALSE

\* primary key (occurrence_id, participant_id) and uq_attendance_once
InsertViolatesKey(rows, o, p) ==
    \E a \in rows : a.occurrence_id = o /\ a.participant_id = p

\* lines 390-409: insert the row; any exception of the insert ends in the
\* handler's "except Exception" and is answered "Erro no check-in: ..."
checkin_create(r) ==
    /\ req[r].pc = "ci_create"
    /\ LET o == req[r].occurrence_id
           p == req[r].participant_id
           row == [occurrence_id |-> o, participant_id |-> p,
                   checkin_at |-> req[r].at, checkout_at |-> None,
                   code_hash |-> req[r].code_hash,
                   checkout_by_participant_id |-> None]
       IN IF \/ InsertViolatesKey(Rows(attendance), o, p)
             \/ OccurrenceById(o) = {}
             \/ ParticipantById(p) = {}
          THEN /\ Finish(r, Respond("checkin", "create", o, p, "Error", None))
               /\ UNCHANGED attendance
          ELSE /\ attendance' = attendance (+) SetToBag({row})
               /\ Finish(r, Respond("checkin", "create", o, p, "Success", req[r].code))
    /\ UNCHANGED <<now, events, occurrences, participants,
                   next_event_id, next_occurrence_id, next_participant_id>>

\* --------------------------------------------------------------- checkout

\* lines 502-519: load the occurrence, test the window, load the participant
\* and the participant who checks out
checkout_window(r, o, p, by) ==
    /\ Free(r)
    /\ IF OccurrenceById(o) = {} \/ ParticipantById(p) = {}
       THEN Finish(r, Respond("checkout", "window", o, p, "Error", None))
       ELSE \E occurrence \in OccurrenceById(o), participant \in ParticipantById(p) :
              IF ~is_checkout_available(occurrence, now)
              THEN Finish(r, Respond("checkout", "window", o, p, "WindowClosed", None))
              ELSE IF ParticipantById(by) = {}
              THEN Finish(r, Respond("checkout", "window", o, p, "Error", None))
              ELSE Continue(r, [IdleReq EXCEPT !.pc = "co_validate",
                                               !.occurrence_id = o,
                                               !.participant_id = p,
                                               !.checkout_by_participant_id = by,
                                               !.birth_date = participant.birth_date])
    /\ UNCHANGED <<now, events, occurrences, participants, attendance,
                   next_event_id, next_occurrence_id, next_participant_id>>

checkout_decision_NoHashCheck(rows, birth_date, code, on_date) ==
    IF rows = {} THEN "NotCheckedIn"
    ELSE IF \E a \in rows : a.checkout_at # None THEN "AlreadyCheckedOut"
    ELSE IF is_minor(birth_date, on_date) /\ code = 0 THEN "CodeRequired"
    ELSE "Update"

checkout_decision_CodeForAll(rows, birth_date, code, on_date) ==
    IF rows = {} THEN "NotCheckedIn"
    ELSE IF \E a \in rows : a.checkout_at # None THEN "AlreadyCheckedOut"
    ELSE IF code = 0 THEN "CodeRequired"
    ELSE IF \E a \in rows : a.code_hash # sha256[code] THEN "InvalidCode"
    ELSE "Update"

checkout_decision_NoRowCheck(rows, birth_date, code, on_date) ==
    IF \E a \in rows : a.checkout_at # None THEN "AlreadyCheckedOut"
    ELSE IF is_minor(birth_date, on_date) /\ code = 0 THEN "CodeRequired"
    ELSE IF is_minor(birth_date, on_date)
            /\ \A a \in rows : a.code_hash # sha256[code] THEN "InvalidCode"
    ELSE "Update"

checkout_decision_NoCheckedOutCheck(rows, birth_date, code, on_date) ==
    IF rows = {} THEN "NotCheckedIn"
    ELSE IF is_minor(birth_date, on_date) /\ code = 0 THEN "CodeRequired"
    ELSE IF is_minor(birth_date, on_date)
            /\ \E a \in rows : a.code_hash # sha256[code] THEN "InvalidCode"
    ELSE "Update"

\* lines 524-565: the checks between reading the attendance row and writing
\* it, in the handler's order; "Update" lets the handler go on to the write
checkout_decision(rows, birth_date, code, on_date) ==
    IF rows = {} THEN "NotCheckedIn"
    ELSE IF \E a \in rows : a.checkout_at # None THEN "AlreadyCheckedOut"
    ELSE IF is_minor(birth_date, on_date) /\ code = 0 THEN "CodeRequired"
    ELSE IF is_minor(birth_date, on_date)
            /\ \E a \in rows : a.code_hash # sha256[code] THEN "InvalidCode"
    ELSE "Update"

\* lines 522-571: read the row of the pair and validate.  The form's code
\* (line 500) is first used here, so the model draws it here; it stays in the
\* local "code" and is reported with the answer
checkout_validate(r, code) ==
    /\ req[r].pc = "co_validate"
    /\ LET o == req[r].occurrence_id
           p == req[r].participant_id
           decision == checkout_decision(get_by_occurrence_and_participant(o, p),
                                         req[r].birth_date, code, date_today(now))
       IN IF decision = "Update"
          THEN Continue(r, [req[r] EXCEPT !.pc = "co_update", !.at = now,
                                            !.birth_date = NoDate,
                                            !.code = code])
          ELSE IF decision \in {"CodeRequired", "InvalidCode"}
          THEN Finish(r, [Respond("checkout", "validate", o, p, decision, None)
                              EXCEPT !.supplied = code])
          ELSE Finish(r, Respond("checkout", "validate", o, p, decision, None))
    /\ UNCHANGED <<now, events, occurrences, participants, attendance,
                   next_event_id, next_occurrence_id, next_participant_id>>

SetCheckout_BySelf(table, o, p, at, by) ==
    LET Written(a) == IF a.occurrence_id = o /\ a.participant_id = p
                      THEN [a EXCEPT !.checkout_at = at,
                                     !.checkout_by_participant_id = p]
                      ELSE a
    IN BagOfAll(Written, table)

\* UPDATE attendance SET checkout_at, checkout_by_participant_id WHERE key
SetCheckout(table, o, p, at, by) ==
    LET Written(a) == IF a.occurrence_id = o /\ a.participant_id = p
                      THEN [a EXCEPT !.checkout_at = at,
                                     !.checkout_by_participant_id = by]
                      ELSE a
    IN BagOfAll(Written, table)

\* lines 568-577: attendance_service.update of the row with that key; a row
\* that is gone, or a checkout_by that is gone, raises and is answered
\* "Erro no check-out: ..."
checkout_update(r) ==
    /\ req[r].pc = "co_update"
    /\ LET o == req[r].occurrence_id
           p == req[r].participant_id
           by == req[r].checkout_by_participant_id
           rows == get_by_occurrence_and_participant(o, p)
       IN IF rows = {} \/ ParticipantById(by) = {}
          THEN /\ Finish(r, Respond("checkout", "update", o, p, "Error", None))
               /\ UNCHANGED attendance
          ELSE /\ attendance' = SetCheckout(attendance, o, p, req[r].at, by)
               /\ Finish(r, [Respond("checkout", "update", o, p, "Success", None)
                                 EXCEPT !.supplied = req[r].code])
    /\ UNCHANGED <<now, events, occurrences, participants,
                   next_event_id, next_occurrence_id, next_participant_id>>

\* ----------------------------------------------------------------- status

\* list_occurrences_for_checkin_checkout, for one occurrence of the list: the
\* status of line 169.  The clock is read three times, time passes between
\* the reads
list_occurrences_for_checkin_checkout(o, t_in, t_out) ==
    /\ \A r \in Reqs : req[r].pc = "idle"
    /\ now <= t_in /\ t_in <= t_out
    /\ \E occurrence \in OccurrenceById(o) :
          response' = [Respond("status", "list", o, None, "Success", None)
                          EXCEPT !.status = get_occurrence_status(occurrence, now, t_in, t_out),
                                 !.clock = <<now, t_in, t_out>>]
    /\ now' = t_out
    /\ UNCHANGED <<events, occurrences, participants, attendance,
                   next_event_id, next_occurrence_id, next_participant_id, req>>

\* --------------------------------------------------- generate_occurrences

\* how a call of generate_occurrences ended: "Success" or the exception it
\* raised, with the list of occurrences it had built
Returned(event, outcome, intervals) ==
    [Respond("generate_occurrences", "flush", None, None, outcome, None)
        EXCEPT !.event = event, !.returned = intervals]

generate_occurrences_NoDelete(r, e) ==
    /\ Free(r)
    /\ next_occurrence_id <= MaxOccurrenceId
    /\ \E event \in EventById(e) :
          Continue(r, [IdleReq EXCEPT !.pc = "go_flush", !.event = event])
    /\ UNCHANGED <<now, events, occurrences, participants, attendance,
                   next_event_id, next_occurrence_id, next_participant_id>>

\* lines 31-35: the call is given an EventModel and its session deletes the
\* occurrences of that event; until the session commits, the delete is its own
generate_occurrences(r, e) ==
    /\ Free(r)
    /\ next_occurrence_id <= MaxOccurrenceId
    /\ \E event \in EventById(e) :
          Continue(r, [IdleReq EXCEPT
                          !.pc = "go_flush",
                          !.event = event,
                          !.deleted = {x.id : x \in {y \in occurrences : y.event_id = e}}])
    /\ UNCHANGED <<now, events, occurrences, participants, attendance,
                   next_event_id, next_occurrence_id, next_participant_id>>

OccurrenceViolatesUnique_Unchecked(rows, e, intervals) == FALSE

\* uq_occurrence_unique_window: (event_id, start_at, end_at) is unique among
\* the rows of the table and the rows of one flush
OccurrenceViolatesUnique(rows, e, intervals) ==
    \/ \E i, j \in 1..Len(intervals) : i # j /\ intervals[i] = intervals[j]
    \/ \E x \in rows, i \in 1..Len(intervals) :
          /\ x.event_id = e
          /\ x.start_at = intervals[i].start_at
          /\ x.end_at = intervals[i].end_at

\* lines 37-52 and the end of the session.  An exception of the expansion
\* leaves the session to the caller, who commits the delete or rolls it
\* back; a flush the table rejects rolls the session back; otherwise the
\* delete (with its cascade to the attendance rows) and the inserts are
\* committed together
generate_occurrences_flush(r, commit) ==
    /\ req[r].pc = "go_flush"
    /\ LET event == req[r].event
           gone == req[r].deleted
           kept == {x \in occurrences : x.id \notin gone}
           added == expand(event)
           n == Len(added.intervals)
           made == {[id |-> next_occurrence_id + i - 1, event_id |-> event.id,
                     start_at |-> added.intervals[i].start_at,
                     end_at |-> added.intervals[i].end_at] : i \in 1..n}
       IN IF added.raised # "none"
          THEN /\ IF commit
                  THEN /\ occurrences' = kept
                       /\ attendance' = CascadeOccurrences(attendance, gone)
                  ELSE UNCHANGED <<occurrences, attendance>>
               /\ UNCHANGED next_occurrence_id
               /\ Finish(r, Returned(event, added.raised, <<>>))
          ELSE IF \/ OccurrenceViolatesUnique(kept, event.id, added.intervals)
                  \/ n > 0 /\ EventById(event.id) = {}
          THEN /\ UNCHANGED <<occurrences, attendance, next_occurrence_id>>
               /\ Finish(r, Returned(event, "IntegrityError", added.intervals))
          ELSE /\ occurrences' = kept \cup made
               /\ attendance' = CascadeOccurrences(attendance, gone)
               /\ next_occurrence_id' = next_occurrence_id + n
               /\ Finish(r, Returned(event, "Success", added.intervals))
    /\ UNCHANGED <<now, events, participants, next_event_id, next_participant_id>>

\* ------------------------------------------------------------------ specs

\* the operations that are not check-in / check-out requests, and the clock
Env ==
    \/ Tick
    \/ \E b \in BirthDates, g \in Guardians : create_participant(b, g)
    \/ \E p \in ParticipantIds : delete_participant(p)
    \/ \E w \in EventWindows : create_event(SingleEvent(w))
    \/ \E r \in Reqs, e \in EventIds : generate_occurrences(r, e)
    \/ \E e \in EventIds : delete_event(e)

\* a request arrives: the first step of a handler
Arrive(pairs) ==
    \/ \E r \in Reqs, k \in pairs : checkin_window(r, k[1], k[2])
    \/ \E r \in Reqs, k \in pairs, by \in ParticipantIds :
          checkout_window(r, k[1], k[2], by)

AllPairs == OccurrenceIds \X ParticipantIds

\* the pairs of the requests that are between two awaits
PairsInFlight ==
    {<<req[r].occurrence_id, req[r].participant_id>> : r \in {q \in Reqs : req[q].pc # "idle"}}

\* a handler resumes after an await
Resume ==
    \/ \E r \in Reqs : checkin_existing(r)
    \/ \E r \in Reqs : checkin_create(r)
    \/ \E r \in Reqs, code \in SuppliedCodes : checkout_validate(r, code)
    \/ \E r \in Reqs : checkout_update(r)

Busy == \E r \in Reqs : req[r].pc # "idle"

\* a call of generate_occurrences is between its delete and its flush
Generating == \E r \in Reqs : req[r].pc = "go_flush"

\* a call of generate_occurrences comes to its flush
Flush == \E r \in Reqs, commit \in BOOLEAN : generate_occurrences_flush(r, commit)

\* requests one after the other, each interleaved with the clock and with the
\* participant and event operations; a call of generate_occurrences runs
\* from its delete to its flush with nothing in between
Next ==
    \/ ~Generating /\ Env
    \/ ~Busy /\ Arrive(AllPairs)
    \/ ~Generating /\ Resume
    \/ Flush

Spec == Init /\ [][Next]_vars

\* two requests for the same pair interleave with each other; requests for
\* different pairs touch different rows.  The rest happens between requests
NextRace ==
    \/ ~Busy /\ Env
    \/ ~Generating /\ Arrive(IF Busy THEN PairsInFlight ELSE AllPairs)
    \/ ~Generating /\ Resume
    \/ Flush

SpecRace == Init /\ [][NextRace]_vars

\* the event operations alone: events of every form are created and deleted
\* while two calls of generate_occurrences interleave
NextExpand ==
    \/ \E data \in EventForms : create_event(data)
    \/ \E e \in EventIds : delete_event(e)
    \/ \E r \in Reqs, e \in EventIds : generate_occurrences(r, e)
    \/ Flush

SpecExpand == Init /\ [][NextExpand]_vars

\* requests one after the other; between two requests the clock advances and
\* the birth dates of the participants are edited
NextEdit ==
    \/ ~Busy /\ Tick
    \/ ~Busy /\ \E b \in BirthDates : create_participant(b, None)
    \/ ~Busy /\ \E p \in ParticipantIds, b \in BirthDates : update_participant(p, b, None)
    \/ ~Busy /\ \E w \in EventWindows : create_event(SingleEvent(w))
    \/ ~Busy /\ \E r \in Reqs, e \in EventIds : generate_occurrences(r, e)
    \/ ~Busy /\ Arrive(AllPairs)
    \/ Resume
    \/ Flush

SpecEdit == Init /\ [][NextEdit]_vars

\* age_on on participants of every birth date, with every reference date
NextAge ==
    \/ \E b \in AgeBirthDates, g \in Guardians : create_participant(b, g)
    \/ \E p \in ParticipantIds, b \in AgeBirthDates, g \in Guardians :
          update_participant(p, b, g)
    \/ \E p \in ParticipantIds, d \in AgeDates : participant_age_on(p, d)

SpecAge == Init /\ [][NextAge]_vars

\* events are created, edited and deleted while calls of generate_occurrences
\* interleave
NextSchedule ==
    \/ \E data \in ScheduleForms : create_event(data)
    \/ \E e \in EventIds, data \in ScheduleForms, replace \in BOOLEAN :
          update_event(e, data, replace)
    \/ \E e \in EventIds : delete_event(e)
    \/ \E r \in Reqs, e \in EventIds : generate_occurrences(r, e)
    \/ Flush

SpecSchedule == Init /\ [][NextSchedule]_vars

\* the status of the occurrences of one-off events as the clock advances
NextStatus ==
    \/ Tick
    \/ \E w \in StatusWindows : create_event(SingleEvent(w))
    \/ \E r \in Reqs, e \in EventIds : generate_occurrences(r, e)
    \/ Flush
    \/ \E o \in OccurrenceIds, t_in, t_out \in Instants :
          list_occurrences_for_checkin_checkout(o, t_in, t_out)

SpecStatus == Init /\ [][NextStatus]_vars

\* ----------------------------------------------------------------- claims

\* the attendance state of a pair k = <<occurrence, participant>>
PairState(table, k) ==
    LET rs == {a \in Rows(table) : a.occurrence_id = k[1] /\ a.participant_id = k[2]}
    IN IF rs = {} THEN "NoAttendance"
       ELSE IF \E a \in rs : a.checkout_at = None THEN "CheckedIn"
       ELSE "CheckedOut"

\* a step of the lifecycle of pair k: forward only, one state at a time
LifecycleStep(before, after) ==
    \/ before = after
    \/ before = "NoAttendance" /\ after = "CheckedIn"
    \/ before = "CheckedIn" /\ after = "CheckedOut"

OccurrenceDeleted(k) ==
    /\ \E x \in occurrences : x.id = k[1]
    /\ ~\E x \in occurrences' : x.id = k[1]

ParticipantDeleted(k) ==
    /\ \E x \in participants : x.id = k[2]
    /\ ~\E x \in participants' : x.id = k[2]

\* C1 as stated: the attendance state of every pair only moves
\* NoAttendance -> CheckedIn -> CheckedOut, and a record disappears only in a
\* step that deletes its occurrence.
C1_RemovedOnlyWithOccurrence ==
    [][\A k \in AllPairs :
          \/ LifecycleStep(PairState(attendance, k), PairState(attendance', k))
          \/ PairState(attendance', k) = "NoAttendance" /\ OccurrenceDeleted(k)]_vars

\* C1 amended: the attendance state of every pair only moves
\* NoAttendance -> CheckedIn -> CheckedOut, and a record disappears only in a
\* step that deletes its occurrence or its participant.
C1_Lifecycle ==
    [][\A k \in AllPairs :
          \/ LifecycleStep(PairState(attendance, k), PairState(attendance', k))
          \/ /\ PairState(attendance', k) = "NoAttendance"
             /\ OccurrenceDeleted(k) \/ ParticipantDeleted(k)]_vars

\* a checked-out record survives the deletion of another participant
C1_Witness ==
    /\ \E a \in Rows(attendance) : a.checkout_at # None
    /\ \E p \in ParticipantIds : p < next_participant_id /\ ParticipantById(p) = {}

\* the rows of pair k in a table
RowsOf(table, k) ==
    {a \in Rows(table) : a.occurrence_id = k[1] /\ a.participant_id = k[2]}

\* the pair a slot works on
PairOf(slot) == <<slot.occurrence_id, slot.participant_id>>

\* C2: in every reachable state the attendance table holds at most one row
\* per (occurrence, participant) pair, however check-in requests interleave.
C2_AtMostOneRowPerPair ==
    \A a \in Rows(attendance) :
        /\ CopiesIn(a, attendance) = 1
        /\ \A b \in Rows(attendance) :
              (a.occurrence_id = b.occurrence_id /\ a.participant_id = b.participant_id)
                  => a = b

\* a check-in has passed the existence check and is about to insert, while
\* another request has already inserted the row of the same pair
C2_Witness ==
    \E r \in Reqs : req[r].pc = "ci_create" /\ RowsOf(attendance, PairOf(req[r])) # {}

\* C3: when two check-ins of one pair both pass the existence check before
\* either inserts, the insert that finds the row in place adds nothing and is
\* answered AlreadyCheckedIn.
C3_DuplicateInsertAnswersAlreadyCheckedIn ==
    [][\A r \in Reqs :
          (/\ req[r].pc = "ci_create"
           /\ req'[r].pc = "idle"
           /\ RowsOf(attendance, PairOf(req[r])) # {})
          => /\ attendance' = attendance
             /\ response'.outcome = "AlreadyCheckedIn"]_vars

\* a check-in request for pair k takes its first step
CheckinArrives(k) ==
    \/ /\ response' # response
       /\ response'.kind = "checkin" /\ response'.step = "window"
       /\ response'.occurrence_id = k[1] /\ response'.participant_id = k[2]
    \/ \E r \in Reqs : /\ req[r].pc = "idle" /\ req'[r].pc = "ci_existing"
                       /\ PairOf(req'[r]) = k

\* a check-out request for pair k takes its first step
CheckoutArrives(k) ==
    \/ /\ response' # response
       /\ response'.kind = "checkout" /\ response'.step = "window"
       /\ response'.occurrence_id = k[1] /\ response'.participant_id = k[2]
    \/ \E r \in Reqs : /\ req[r].pc = "idle" /\ req'[r].pc = "co_validate"
                       /\ PairOf(req'[r]) = k

\* C4: a check-in of an existing participant at an occurrence whose check-in
\* window [start_at - 2h, end_at - 40min] does not contain the current
\* instant is answered WindowClosed and leaves the attendance table as it
\* was, whether or not the pair has a record.
C4_CheckinOutsideWindow ==
    [][\A k \in AllPairs :
          (/\ CheckinArrives(k)
           /\ ParticipantById(k[2]) # {}
           /\ \E x \in OccurrenceById(k[1]) :
                 now < x.start_at - 120 \/ now > x.end_at - 40)
          => /\ response' = Respond("checkin", "window", k[1], k[2], "WindowClosed", None)
             /\ attendance' = attendance
             /\ req' = req]_vars

\* a pair that has a record is refused a check-in after the window closed
C4_Witness ==
    /\ response.kind = "checkin" /\ response.outcome = "WindowClosed"
    /\ RowsOf(attendance, PairOf(response)) # {}

\* C5: a check-out of an existing participant at an occurrence whose
\* check-out window [start_at, end_at] does not contain the current instant
\* is answered WindowClosed and leaves the attendance record unchanged.
C5_CheckoutOutsideWindow ==
    [][\A k \in AllPairs :
          (/\ CheckoutArrives(k)
           /\ ParticipantById(k[2]) # {}
           /\ \E x \in OccurrenceById(k[1]) : now < x.start_at \/ now > x.end_at)
          => /\ response' = Respond("checkout", "window", k[1], k[2], "WindowClosed", None)
             /\ attendance' = attendance
             /\ req' = req]_vars

\* a checked-in participant is refused a check-out before the event starts
C5_Witness ==
    /\ response.kind = "checkout" /\ response.outcome = "WindowClosed"
    /\ \E a \in RowsOf(attendance, PairOf(response)) : a.checkout_at = None

\* C6: a check-in that finds a record of its pair (checked out or not) is
\* answered AlreadyCheckedIn, draws no code and leaves the table as it was.
C6_SecondCheckinRejected ==
    [][\A r \in Reqs :
          (/\ req[r].pc = "ci_existing"
           /\ req'[r] # req[r]
           /\ RowsOf(attendance, PairOf(req[r])) # {})
          => /\ response' = Respond("checkin", "existing", req[r].occurrence_id,
                                    req[r].participant_id, "AlreadyCheckedIn", None)
             /\ req'[r] = IdleReq
             /\ attendance' = attendance]_vars

\* a pair that is already checked out is refused a second check-in
C6_Witness ==
    /\ response.kind = "checkin" /\ response.outcome = "AlreadyCheckedIn"
    /\ \E a \in RowsOf(attendance, PairOf(response)) : a.checkout_at # None

\* C7: a check-out that passed the window test and finds no record of its
\* pair is answered NotCheckedIn and creates no record.
C7_CheckoutWithoutCheckin ==
    [][\A r \in Reqs :
          (/\ req[r].pc = "co_validate"
           /\ req'[r] # req[r]
           /\ RowsOf(attendance, PairOf(req[r])) = {})
          => /\ response' = Respond("checkout", "validate", req[r].occurrence_id,
                                    req[r].participant_id, "NotCheckedIn", None)
             /\ req'[r] = IdleReq
             /\ attendance' = attendance]_vars

\* a check-out was refused for a pair without a record, inside the window
C7_Witness ==
    /\ response.kind = "checkout" /\ response.outcome = "NotCheckedIn"
    /\ RowsOf(attendance, PairOf(response)) = {}
    /\ \E x \in OccurrenceById(response.occurrence_id) : x.start_at <= now /\ now <= x.end_at

\* the checkout fields of a record, once set, keep their values as long as
\* the record exists
CheckoutFieldsKept ==
    \A a \in Rows(attendance) :
        a.checkout_at # None =>
            \A b \in RowsOf(attendance', <<a.occurrence_id, a.participant_id>>) :
                /\ b.checkout_at = a.checkout_at
                /\ b.checkout_by_participant_id = a.checkout_by_participant_id

\* C8: with requests served one after the other, a check-out that finds its
\* record checked out is answered AlreadyCheckedOut, and the checkout fields
\* of a record stay at the values the first successful check-out wrote.
C8_LaterCheckoutRejected ==
    [][/\ CheckoutFieldsKept
       /\ \A r \in Reqs :
             (/\ req[r].pc = "co_validate"
              /\ req'[r] # req[r]
              /\ \E a \in RowsOf(attendance, PairOf(req[r])) : a.checkout_at # None)
             => /\ response' = Respond("checkout", "validate", req[r].occurrence_id,
                                       req[r].participant_id, "AlreadyCheckedOut", None)
                /\ req'[r] = IdleReq
                /\ attendance' = attendance]_vars

\* a second check-out of a checked-out pair was refused
C8_Witness ==
    /\ response.kind = "checkout" /\ response.outcome = "AlreadyCheckedOut"
    /\ \E a \in RowsOf(attendance, PairOf(response)) : a.checkout_at # None

\* C9: when two check-outs of one pair both read checkout_at as unset, the
\* one that comes to its write after the other has written does not
\* overwrite the checkout fields.
C9_CheckoutWrittenOnce ==
    [][\A r \in Reqs :
          (/\ req[r].pc = "co_update"
           /\ req'[r] # req[r]
           /\ \E a \in RowsOf(attendance, PairOf(req[r])) : a.checkout_at # None)
          => attendance' = attendance]_vars

\* the day of the 18th birthday of a participant born on birth_date
EighteenthBirthday(birth_date) == [birth_date EXCEPT !.year = birth_date.year + 18]

\* C10: a successful check-in inserts a record that stores a code_hash and shows a
\* code exactly when the check-in date is before the participant's 18th
\* birthday, the code_hash being the digest of the code shown; otherwise
\* code_hash is null and no code is shown.
C10_CodeIffMinor ==
    [][\A r \in Reqs :
          (/\ req[r].pc = "ci_create"
           /\ req'[r] # req[r]
           /\ response'.outcome = "Success")
          => \E a \in RowsOf(attendance', PairOf(req[r])) \ Rows(attendance),
                x \in ParticipantById(req[r].participant_id) :
                LET minor == DateLess(date_today(a.checkin_at),
                                      EighteenthBirthday(x.birth_date))
                IN /\ minor => /\ response'.code \in Codes
                               /\ a.code_hash = sha256[response'.code]
                   /\ ~minor => /\ response'.code = None
                                /\ a.code_hash = None]_vars

\* a participant checked in on the day before the 18th birthday got a code
C10_Witness ==
    /\ response.kind = "checkin" /\ response.outcome = "Success"
    /\ response.code # None
    /\ \E x \in ParticipantById(response.participant_id) :
          EighteenthBirthday(x.birth_date).day = date_today(now).day + 1

\* the participant loaded by the request in slot r is under 18 on the local
\* date of the instant t
MinorAt(r, t) ==
    DateLess(date_today(t), EighteenthBirthday(req[r].birth_date))

\* the code the form of the check-out in slot r supplied, once the step that
\* validates it has been taken
SuppliedCode(r) ==
    IF req'[r].pc = "co_update" THEN req'[r].code ELSE response'.supplied

\* the row of slot r's pair after the step carries the checkout fields the
\* request holds
CheckoutRecorded(r) ==
    /\ response'.kind = "checkout" /\ response'.outcome = "Success"
    /\ \A b \in RowsOf(attendance', PairOf(req[r])) :
          /\ b.checkout_at = req[r].at
          /\ b.checkout_by_participant_id = req[r].checkout_by_participant_id

\* C11: a check-out, inside the window, of a checked-in and not yet checked-out
\* participant who is under 18 on the check-out date is answered CodeRequired
\* when the code is empty and InvalidCode when the digest of the code differs
\* from the stored code_hash, both leaving the record as it was; with the
\* code whose digest is stored it goes on to the write, which records
\* checkout_at and checkout_by_participant_id.
C11_MinorCheckoutNeedsCode ==
    [][\A r \in Reqs :
          /\ (/\ req[r].pc = "co_validate"
              /\ req'[r] # req[r]
              /\ MinorAt(r, now))
             => \A a \in RowsOf(attendance, PairOf(req[r])) :
                   a.checkout_at = None =>
                      /\ attendance' = attendance
                      /\ SuppliedCode(r) = 0
                            => /\ response'.outcome = "CodeRequired"
                               /\ req'[r] = IdleReq
                      /\ (SuppliedCode(r) # 0 /\ a.code_hash # sha256[SuppliedCode(r)])
                            => /\ response'.outcome = "InvalidCode"
                               /\ req'[r] = IdleReq
                      /\ (SuppliedCode(r) # 0 /\ a.code_hash = sha256[SuppliedCode(r)])
                            => /\ req'[r].pc = "co_update"
                               /\ req'[r].at = now
          /\ (/\ req[r].pc = "co_update"
              /\ req'[r] # req[r]
              /\ ParticipantById(req[r].checkout_by_participant_id) # {}
              /\ \E a \in RowsOf(attendance, PairOf(req[r])) : a.code_hash # None)
             => CheckoutRecorded(r)]_vars

\* a minor was checked out with the code issued at check-in
C11_Witness ==
    /\ response.kind = "checkout" /\ response.outcome = "Success"
    /\ \E a \in RowsOf(attendance, PairOf(response)) :
          /\ a.checkout_at # None
          /\ a.code_hash = sha256[response.supplied]
    /\ \E x \in ParticipantById(response.participant_id) :
          DateLess(date_today(now), EighteenthBirthday(x.birth_date))

\* a minor's check-out was refused for a wrong code and the record is still
\* checked in
C11_WitnessRefused ==
    /\ response.kind = "checkout" /\ response.outcome = "InvalidCode"
    /\ response.supplied # 0
    /\ \E a \in RowsOf(attendance, PairOf(response)) : a.checkout_at = None

\* C12: a check-out, inside the window, of a checked-in and not yet checked-out
\* participant who is 18 or older on the check-out date goes on to the write
\* whatever code the form supplied (empty, the issued one, another one), and
\* the write records the checkout fields: the code is never compared.
C12_AdultCheckoutIgnoresCode ==
    [][\A r \in Reqs :
          /\ (/\ req[r].pc = "co_validate"
              /\ req'[r] # req[r]
              /\ ~MinorAt(r, now)
              /\ \E a \in RowsOf(attendance, PairOf(req[r])) : a.checkout_at = None)
             => /\ req'[r].pc = "co_update"
                /\ req'[r].code \in SuppliedCodes
                /\ attendance' = attendance
          /\ (/\ req[r].pc = "co_update"
              /\ req'[r] # req[r]
              /\ ParticipantById(req[r].checkout_by_participant_id) # {}
              /\ RowsOf(attendance, PairOf(req[r])) # {})
             => CheckoutRecorded(r)]_vars

\* a participant who checked in as a minor, with a code, checked out after
\* the 18th birthday with an empty code
C12_Witness ==
    /\ response.kind = "checkout" /\ response.outcome = "Success"
    /\ response.supplied = 0
    /\ \E a \in RowsOf(attendance, PairOf(response)) :
          a.checkout_at # None /\ a.code_hash # None

\* the last call of generate_occurrences, as its caller saw it
Generated == response.kind = "generate_occurrences"

\* the (start_at, end_at) pairs of the persisted occurrences of event e
PersistedIntervals(e) ==
    {[start_at |-> x.start_at, end_at |-> x.end_at] :
        x \in {y \in occurrences : y.event_id = e}}

\* the set of the elements of a list
Range(list) == {list[i] : i \in 1..Len(list)}

\* C15: for a non-recurring event the expansion builds exactly one interval,
\* equal to (single_start, single_end), when both are set, and none when
\* either is missing; when the call succeeds these are the persisted
\* occurrences of the event.
C15_SingleEventExpansion ==
    (Generated /\ ~response.event.is_recurring)
        => LET event == response.event
           IN /\ response.outcome \in {"Success", "IntegrityError"}
              /\ (event.single_start # None /\ event.single_end # None)
                    => response.returned = <<[start_at |-> event.single_start,
                                              end_at |-> event.single_end]>>
              /\ (event.single_start = None \/ event.single_end = None)
                    => response.returned = <<>>
              /\ response.outcome = "Success"
                    => PersistedIntervals(event.id) = Range(response.returned)

\* a one-off event with both instants was expanded to its one occurrence
C15_Witness ==
    /\ Generated /\ response.outcome = "Success"
    /\ ~response.event.is_recurring
    /\ Len(response.returned) = 1
    /\ Cardinality({x \in occurrences : x.event_id = response.event.id}) = 1

\* a one-off event with a start and no end was expanded to nothing
C15_WitnessMissing ==
    /\ Generated /\ response.outcome = "Success"
    /\ ~response.event.is_recurring
    /\ response.event.single_start # None /\ response.event.single_end = None
    /\ response.returned = <<>>

\* a recurring event lacks its rule, one of its dates, its weekdays or its
\* time windows
MissingRecurrenceData(event) ==
    \/ event.recurrence_rule = [weekdays |-> <<>>, time_windows |-> <<>>]
    \/ event.recurrence_start_date = None
    \/ event.recurrence_end_date = None
    \/ Len(event.recurrence_rule.weekdays) = 0
    \/ Len(event.recurrence_rule.time_windows) = 0

ClockMinutes(part) == int(part[1]) * 60 + int(part[2])

\* a time window "HH:MM-HH:MM" of two clock times, the first before the second
WellFormedWindow(time_window) ==
    /\ Len(time_window) = 2
    /\ \A i \in 1..Len(time_window) :
          /\ Len(time_window[i]) = 2
          /\ \A j \in 1..2 : IsInt(time_window[i][j])
          /\ int(time_window[i][1]) \in 0..23 /\ int(time_window[i][2]) \in 0..59
    /\ ClockMinutes(time_window[1]) < ClockMinutes(time_window[2])

\* a recurring event with its rule, both dates, weekdays that are numbers and
\* at least one time window
CompleteRecurrence(event) ==
    /\ event.is_recurring
    /\ ~MissingRecurrenceData(event)
    /\ \A i \in 1..Len(event.recurrence_rule.weekdays) :
          IsInt(event.recurrence_rule.weekdays[i])

\* the dates of the recurrence range, both ends included, whose weekday is in
\* the rule
MatchingDates(event) ==
    {d \in event.recurrence_start_date .. event.recurrence_end_date :
        \E i \in 1..Len(event.recurrence_rule.weekdays) :
            d % 7 = int(event.recurrence_rule.weekdays[i])}

\* the well-formed time windows of the rule, by their place in the list
WellFormedWindows(event) ==
    {i \in 1..Len(event.recurrence_rule.time_windows) :
        WellFormedWindow(event.recurrence_rule.time_windows[i])}

\* the (date, window) pairs by date ascending and, within a date, in the
\* order the rule declares the windows
InOrder(pairs) ==
    CHOOSE f \in [1..Cardinality(pairs) -> pairs] :
        \A a, b \in 1..Cardinality(pairs) :
            a < b => \/ f[a][1] < f[b][1]
                     \/ f[a][1] = f[b][1] /\ f[a][2] < f[b][2]

\* the list is one interval for every (date, window) pair, in order: each
\* lasts as long as its window, and they lie apart as their dates and clock
\* times do
IntervalsOf(event, list, pairs) ==
    LET f == InOrder(pairs)
        w(k) == event.recurrence_rule.time_windows[f[k][2]]
    IN /\ Len(list) = Cardinality(pairs)
       /\ \A k \in 1..Len(list) :
             /\ list[k].end_at - list[k].start_at
                   = ClockMinutes(w(k)[2]) - ClockMinutes(w(k)[1])
             /\ list[k].start_at - list[1].start_at
                   = (f[k][1] - f[1][1]) * 1440
                       + ClockMinutes(w(k)[1]) - ClockMinutes(w(1)[1])

\* C17: for a recurring event with complete data and well-formed time windows
\* the expansion succeeds with exactly one interval for every date of the
\* range (both ends included) whose weekday is in the rule and every time
\* window, by date ascending and then in the order of the windows; an empty
\* range or a range without a matching weekday gives the empty list.
C17_RecurringExpansion ==
    (/\ Generated
     /\ CompleteRecurrence(response.event)
     /\ WellFormedWindows(response.event)
           = 1..Len(response.event.recurrence_rule.time_windows))
        => /\ response.outcome \in {"Success", "IntegrityError"}
           /\ IntervalsOf(response.event, response.returned,
                          MatchingDates(response.event)
                              \X WellFormedWindows(response.event))

\* C18: when some time windows of a recurring event with complete data are
\* malformed, the expansion succeeds with the intervals of the well-formed
\* windows on every matching date, in order, and nothing for the others.
C18_MalformedWindowsSkipped ==
    (/\ Generated
     /\ CompleteRecurrence(response.event)
     /\ WellFormedWindows(response.event)
           # 1..Len(response.event.recurrence_rule.time_windows))
        => /\ response.outcome \in {"Success", "IntegrityError"}
           /\ IntervalsOf(response.event, response.returned,
                          MatchingDates(response.event)
                              \X WellFormedWindows(response.event))

\* C19: every persisted occurrence starts before it ends.
C19_OccurrenceStartsBeforeEnd ==
    \A x \in occurrences : x.start_at < x.end_at

\* C20: no two persisted occurrences of one event have the same
\* (start_at, end_at), however calls of generate_occurrences interleave.
C20_UniqueWindowPerEvent ==
    \A x, y \in occurrences :
        (x.event_id = y.event_id /\ x.start_at = y.start_at /\ x.end_at = y.end_at)
            => x = y

\* a call of generate_occurrences was refused by the unique constraint: the
\* occurrence it built is the one another call had persisted meanwhile
C20_Witness ==
    /\ Generated /\ response.outcome = "IntegrityError"
    /\ \E x \in occurrences :
          /\ x.event_id = response.event.id
          /\ [start_at |-> x.start_at, end_at |-> x.end_at] \in Range(response.returned)

\* the last answer is the status of an occurrence
StatusGiven == response.kind = "status"

\* C13: the check-in flag of a status is true exactly when the instant its
\* clock read gave lies in [start_at - 2h, end_at - 40min], the check-out
\* flag exactly when its instant lies in [start_at, end_at], all four bounds
\* included, and the window bounds of the status are those four instants.
C13_AvailabilityWindows ==
    StatusGiven =>
        \A x \in OccurrenceById(response.occurrence_id) :
            LET st == response.status
                t_in == response.clock[2]
                t_out == response.clock[3]
            IN /\ st.checkin_available
                     <=> (x.start_at - 120 <= t_in /\ t_in <= x.end_at - 40)
               /\ st.checkout_available
                     <=> (x.start_at <= t_out /\ t_out <= x.end_at)
               /\ st.checkin_opens_at = x.start_at - 120
               /\ st.checkin_closes_at = x.end_at - 40
               /\ st.checkout_opens_at = x.start_at
               /\ st.checkout_closes_at = x.end_at

\* check-in was available at the very instant its window closes
C13_Witness ==
    /\ StatusGiven /\ response.status.checkin_available
    /\ response.clock[2] = response.status.checkin_closes_at

\* C14: when the clock gives the same instant now to the three reads of one
\* status computation, the status is event_not_started if now < start_at - 2h,
\* else event_ended if now > end_at, else checkin_available if now is in the
\* check-in window, else checkout_available if now is in the check-out
\* window, else checkin_closed.
C14_StatusPriority ==
    (StatusGiven /\ response.clock[2] = response.clock[1]
                 /\ response.clock[3] = response.clock[1])
        => \A x \in OccurrenceById(response.occurrence_id) :
              LET t == response.clock[1]
              IN response.status.status =
                    IF t < x.start_at - 120 THEN "event_not_started"
                    ELSE IF t > x.end_at THEN "event_ended"
                    ELSE IF x.start_at - 120 <= t /\ t <= x.end_at - 40
                         THEN "checkin_available"
                    ELSE IF x.start_at <= t /\ t <= x.end_at
                         THEN "checkout_available"
                    ELSE "checkin_closed"

\* at an instant inside both windows the status is checkin_available
C14_Witness ==
    /\ StatusGiven /\ response.status.status = "checkin_available"
    /\ response.clock = <<now, now, now>>
    /\ \E x \in OccurrenceById(response.occurrence_id) :
          x.start_at <= now /\ now <= x.end_at - 40

\* between the end of check-in and the start of the event the status is
\* checkin_closed
C14_WitnessClosed ==
    /\ StatusGiven /\ response.status.status = "checkin_closed"
    /\ response.clock = <<now, now, now>>

\* the occurrences of event e among rows, and their (start_at, end_at) pairs
OccurrencesOf(rows, e) == {x \in rows : x.event_id = e}

IntervalsIn(rows, e) ==
    {[start_at |-> x.start_at, end_at |-> x.end_at] : x \in OccurrencesOf(rows, e)}

\* the call of generate_occurrences in slot r comes to its end in this step
GenerateEnds(r) == req[r].pc = "go_flush" /\ req'[r].pc = "idle"

\* C21: a call of generate_occurrences deletes every persisted occurrence of
\* its event, and a call that finds the occurrences an earlier call persisted
\* for the same, unchanged event, with no other call in between, succeeds and
\* leaves the same intervals and the same number of occurrences: the set does
\* not grow.  Under any interleaving the intervals and their number stay.
C21_RegenerateIdempotent ==
    [][\A r \in Reqs :
          /\ (req[r].pc = "idle" /\ req'[r].pc = "go_flush")
                => req'[r].deleted
                      = {x.id : x \in OccurrencesOf(occurrences, req'[r].event.id)}
          /\ (GenerateEnds(r) /\ OccurrencesOf(occurrences, req[r].event.id) # {})
                => LET e == req[r].event.id
                   IN /\ IntervalsIn(occurrences', e) = IntervalsIn(occurrences, e)
                      /\ Cardinality(OccurrencesOf(occurrences', e))
                            = Cardinality(OccurrencesOf(occurrences, e))
                      /\ req[r].deleted = {x.id : x \in OccurrencesOf(occurrences, e)}
                            => /\ response'.outcome = "Success"
                               /\ Len(response'.returned)
                                     = Cardinality(OccurrencesOf(occurrences, e))
                               /\ Range(response'.returned) = IntervalsIn(occurrences, e)
                               /\ OccurrencesOf(occurrences', e) \cap occurrences = {}]_vars

\* a second call for the same event has replaced the occurrence the first
\* call persisted: one occurrence, with a new id
C21_Witness ==
    /\ Generated /\ response.outcome = "Success"
    /\ Len(response.returned) = 1
    /\ Cardinality(OccurrencesOf(occurrences, response.event.id)) = 1
    /\ \A x \in OccurrencesOf(occurrences, response.event.id) : x.id > 1

\* C22: a call of generate_occurrences that fails between its delete and
\* its flush leaves the persisted occurrences of its event as they were
\* before the call; the delete of a call shows to nobody before its end, and
\* a call that succeeds removes all it deleted and persists all it returned
\* in one step.
C22_RegenerateAtomic ==
    [][\A r \in Reqs :
          LET e == req[r].event.id
          IN /\ (req[r].pc = "idle" /\ req'[r].pc = "go_flush")
                   => occurrences' = occurrences
             /\ (GenerateEnds(r) /\ response'.outcome # "Success")
                   => OccurrencesOf(occurrences', e) = OccurrencesOf(occurrences, e)
             /\ (GenerateEnds(r) /\ response'.outcome = "Success")
                   => /\ Range(response'.returned) \subseteq IntervalsIn(occurrences', e)
                      /\ \A x \in occurrences' : x.id \notin req[r].deleted]_vars

\* the schedule fields of an event
ScheduleOf(event) ==
    <<event.is_recurring, event.single_start, event.single_end,
      event.recurrence_start_date, event.recurrence_end_date, event.recurrence_rule>>

\* event e is created in this step, or one of its schedule fields changes
ScheduleWritten(e) ==
    /\ \E x \in events' : x.id = e
    /\ \A x \in events, y \in events' :
          (x.id = e /\ y.id = e) => ScheduleOf(x) # ScheduleOf(y)

\* the persisted occurrences of the event are those its schedule asks for
FollowsSchedule(rows, event) ==
    IF ~event.is_recurring
    THEN IntervalsIn(rows, event.id) =
            IF event.single_start # None /\ event.single_end # None
            THEN {[start_at |-> event.single_start, end_at |-> event.single_end]}
            ELSE {}
    ELSE Cardinality(OccurrencesOf(rows, event.id)) =
            IF CompleteRecurrence(event)
            THEN Cardinality(MatchingDates(event) \X WellFormedWindows(event))
            ELSE 0

\* C23: after every step that creates an event or changes a schedule field of
\* an event, the persisted occurrences of the event are the expansion of its
\* schedule.
C23_OccurrencesFollowSchedule ==
    [][\A e \in EventIds :
          ScheduleWritten(e)
              => \A event \in {x \in events' : x.id = e} :
                    FollowsSchedule(occurrences', event)]_vars

\* C24: every attendance record references an occurrence that exists: a step
\* that deletes an occurrence, by deleting its event or by the bulk delete of
\* generate_occurrences, removes the records of the occurrence with it.
C24_AttendanceHasOccurrence ==
    \A a \in Rows(attendance) : \E x \in occurrences : x.id = a.occurrence_id

\* the session of a call of generate_occurrences has deleted an occurrence
\* that has an attendance record
C24_Witness ==
    \E r \in Reqs :
        /\ req[r].pc = "go_flush"
        /\ \E a \in Rows(attendance) : a.occurrence_id \in req[r].deleted

\* the k-th anniversary of a birth date
Anniversary(birth_date, k) == [birth_date EXCEPT !.year = birth_date.year + k]

\* C25: for a reference date d not before the birth date, age_on is the
\* number of whole years elapsed: the last anniversary that is not after d.
\* On the day of an anniversary it is the difference of the years, on the
\* day before one less, on the day after the same as on the anniversary.
C25_AgeIsWholeYears ==
    response.kind = "age_on" =>
        \A x \in ParticipantById(response.participant_id) :
            LET b == x.birth_date
                d == response.on_date
                age == response.age
            IN ~DateLess(d, b) =>
                  /\ age >= 0
                  /\ ~DateLess(d, Anniversary(b, age))
                  /\ DateLess(d, Anniversary(b, age + 1))
                  /\ (d.month = b.month /\ d.day = b.day) => age = d.year - b.year
                  /\ (d.month = b.month /\ d.day = b.day - 1) => age = d.year - b.year - 1
                  /\ (d.month = b.month /\ d.day = b.day + 1) => age = d.year - b.year

\* the age on the day before the 18th anniversary is 17
C25_Witness ==
    /\ response.kind = "age_on" /\ response.age = 17
    /\ \E x \in ParticipantById(response.participant_id) :
          /\ response.on_date.month = x.birth_date.month
          /\ response.on_date.day = x.birth_date.day - 1

\* the age on the day of the 18th anniversary is 18
C25_WitnessAnniversary ==
    /\ response.kind = "age_on" /\ response.age = 18
    /\ \E x \in ParticipantById(response.participant_id) :
          Anniversary(x.birth_date, 18) = response.on_date

\* C26: the code of a minor is shown only by the successful check-in that
\* drew it, whose record stores its digest; no other answer (a refused
\* check-in, a check-out, a status) shows a code, and no attendance record
\* holds a code, only the digest of one.
C26_CodeShownOnce ==
    /\ response.code # None
          => /\ response.kind = "checkin" /\ response.outcome = "Success"
             /\ response.code \in Codes
             /\ \A a \in RowsOf(attendance, PairOf(response)) :
                   a.code_hash = sha256[response.code]
    /\ \A a \in Rows(attendance) :
          a.code_hash # None
              => /\ a.code_hash \notin SuppliedCodes
                 /\ \E c \in Codes : a.code_hash = sha256[c]

\* a second check-in of a minor who holds a code was refused without
\* showing it
C26_Witness ==
    /\ response.kind = "checkin" /\ response.outcome = "AlreadyCheckedIn"
    /\ response.code = None
    /\ \E a \in RowsOf(attendance, PairOf(response)) : a.code_hash # None

\* a minor was checked out and the answer shows no code
C26_WitnessCheckout ==
    /\ response.kind = "checkout" /\ response.outcome = "Success"
    /\ response.code = None
    /\ \E a \in RowsOf(attendance, PairOf(response)) :
          a.code_hash # None /\ a.code_hash = sha256[response.supplied]

C28_TimestampsInsideWindows ==
    \A a \in Rows(attendance) :
        \A x \in OccurrenceById(a.occurrence_id) :
            /\ x.start_at - 120 <= a.checkin_at /\ a.checkin_at <= x.end_at - 40
            /\ a.checkout_at # None
                  => (x.start_at <= a.checkout_at /\ a.checkout_at <= x.end_at)

\* C29: every status is consistent with its own flags: event_not_started,
\* event_ended and checkin_closed come with both flags false,
\* checkin_available with the check-in flag true, checkout_available with the
\* check-out flag true and the check-in flag false.
C29_StatusAgreesWithFlags ==
    StatusGiven =>
        LET st == response.status
        IN /\ st.status \in {"event_not_started", "event_ended", "checkin_closed"}
                 => (~st.checkin_available /\ ~st.checkout_available)
           /\ st.status = "checkin_available" => st.checkin_available
           /\ st.status = "checkout_available"
                 => (st.checkout_available /\ ~st.checkin_available)

\* C30: a record that was created with a code_hash is checked out only by a
\* request whose code has that digest, whatever happened to the participant
\* since the check-in.
C30_CodeHashAlwaysChecked ==
    [][\A r \in Reqs :
          (/\ req[r].pc = "co_update"
           /\ response'.kind = "checkout" /\ response'.outcome = "Success")
          => \A a \in RowsOf(attendance, PairOf(req[r])) :
                a.code_hash # None => a.code_hash = sha256[req[r].code]]_vars

====
